---- MODULE Spec2Model ----
(***************************************************************************)
(* Model of the Dynamixel driver: the packet codec (src/src/packets.rs)    *)
(* and the half-duplex transport read-accumulation loop (src/src/bus.rs).  *)
(*                                                                         *)
(* Bytes are u8 values 0..255.  Rust slices are 0-based, TLA+ sequences    *)
(* are 1-based: serialized[k] in the source is s[k + 1] here.              *)
(*                                                                         *)
(* u8 `+` is build dependent: a debug build aborts on overflow, a release  *)
(* build wraps modulo 256.  The variable `build` carries the profile the   *)
(* crate was compiled with; both are explored.                             *)
(***************************************************************************)
EXTENDS Integers, Sequences, FiniteSets, TLC

VARIABLES
    build,          \* "debug" | "release": the profile the crate is compiled with
    \* ---- transport (Bus::open / Bus::exchange / Bus::read_packet) ----
    openRes,        \* what Bus::open did, and the step of it that failed
    pc,             \* position of the caller: before open, inside exchange, ...
    ncalls,         \* number of exchange calls started on this Bus
    req,            \* the Request given to exchange
    request_data,   \* p.serialized()
    nwrites,        \* calls of port.write made by this exchange
    wres,           \* what port.write returned
    line,           \* bytes the device will still deliver on the serial line
    output,         \* read_packet's accumulation buffer
    nreads,         \* calls of port.read made by this exchange
    lastRead,       \* what the latest port.read of this exchange returned
    result,         \* the value exchange returned
    \* ---- codec, applied to one drawn input ----
    csrc,           \* which kind of input was drawn
    cbuf,           \* input byte buffer
    cstatus,        \* the logical status a drawn status frame was built from
    creq,           \* input Request
    cop,            \* the function that was applied
    cret,           \* what it returned
    \* ---- register table (ax12.rs), applied to one drawn input ----
    rreg,           \* the Register the method is called on
    rid,            \* device id given to read_request
    rdata,          \* data of the Status given to parse_read_value
    rop,            \* the method that was applied
    rret            \* what it returned

vars == << build, openRes, pc, ncalls, req, request_data, nwrites, wres, line,
           output, nreads, lastRead, result, csrc, cbuf, cstatus, creq, cop,
           cret, rreg, rid, rdata, rop, rret >>

registerVars == << rreg, rid, rdata, rop, rret >>

transportVars == << pc, ncalls, req, request_data, nwrites, wres, line, output,
                    nreads, lastRead, result >>

codecVars == << csrc, cbuf, cstatus, creq, cop, cret >>

(***************************************************************************)
(* Program constants                                                       *)
(***************************************************************************)
\* number of values of a u8
U8Range == 256

\* size of read_packet's scratch window: &mut [0; 128]
ScratchLen == 128

\* minimum length accepted by extract_declared_length
MinFrameLen == 6

\* the constant added to the length byte
LenOffset == 4

Byte == 0 .. (U8Range - 1)

(***************************************************************************)
(* Bounds of the model                                                     *)
(***************************************************************************)
\* drawn buffers have every length 0..MaxSmallLen, and the lengths around 256
MaxSmallLen == 9

\* drawn length bytes are 0..MaxSmallLenByte, and the values near 255
MaxSmallLenByte == 5

\* drawn Write payloads have 0..MaxSmallPayload bytes, and the lengths near 253
MaxSmallPayload == 2

\* exchange calls made on one Bus
MaxExchanges == 2

\* payloads given to parse_read_value have 0..MaxValueLen bytes
MaxValueLen == 4
\* most bytes left unread on the port from which a further exchange is explored
MaxPending == 1

(***************************************************************************)
(* u8 arithmetic                                                           *)
(***************************************************************************)
\* a bug of wrapping_add: the sum stops at 255 instead of wrapping
saturating_add(a, b) == IF a + b >= U8Range THEN U8Range - 1 ELSE a + b

\* a.wrapping_add(b)
wrapping_add(a, b) == (a + b) % U8Range

\* bits 0..(k-1) of x, each flipped
RECURSIVE flip_bits(_, _)
flip_bits(x, k) ==
    IF k = 0 THEN 0
    ELSE (1 - (x % 2)) + 2 * flip_bits(x \div 2, k - 1)

\* !x on a u8
not_u8(x) == flip_bits(x, 8)

\* a + b on u8: aborts on overflow in a debug build, wraps in a release build
u8_add(a, b) ==
    [ panic |-> (build = "debug" /\ a + b >= U8Range),
      v     |-> (a + b) % U8Range ]

\* n as u8
as_u8(n) == n % U8Range

(***************************************************************************)
(* packets.rs: checksum                                                    *)
(***************************************************************************)
\* the loop of crc_data over data[lo..hi], in index order, starting from sum:
\* sum = sum.wrapping_add(*b) for every b.  The range is folded in two halves,
\* left half first, which is the same left-to-right fold; the test on `part`
\* always succeeds and only makes the left half be computed first
RECURSIVE crc_loop(_, _, _, _)
crc_loop(data, lo, hi, sum) ==
    IF lo > hi THEN sum
    ELSE IF lo = hi THEN wrapping_add(sum, data[lo])
    ELSE LET mid == (lo + hi) \div 2
             part == crc_loop(data, lo, mid, sum)
         IN  IF part \in Byte THEN crc_loop(data, mid + 1, hi, part) ELSE part

crc_data(data) == not_u8(crc_loop(data, 1, Len(data), 0))

\* a bug of crc: the two marker bytes are summed too
crc_with_markers(serialized) == crc_data(serialized)

\* crc(serialized) = crc_data(&serialized[2..]); every caller passes at least
\* 5 bytes, so the slice never aborts
crc(serialized) == crc_data(SubSeq(serialized, 3, Len(serialized)))

(***************************************************************************)
(* packets.rs: Status                                                      *)
(***************************************************************************)
Status(i, e, d) == [ id |-> i, error |-> e, data |-> d ]

NoStatus == Status(0, 0, << >>)

\* Option<usize>, or the abort of the u8 addition
extract_declared_length(serialized) ==
    IF Len(serialized) < MinFrameLen
    THEN [ tag |-> "None", v |-> 0 ]
    ELSE LET s == u8_add(serialized[4], LenOffset)
         IN  IF s.panic THEN [ tag |-> "panic", v |-> 0 ]
                        ELSE [ tag |-> "Some", v |-> s.v ]

\* a bug of is_constructible_from: a buffer longer than declared also counts
is_constructible_from_at_least(serialized) ==
    LET d == extract_declared_length(serialized)
    IN  CASE d.tag = "Some"  -> IF Len(serialized) >= d.v THEN "true" ELSE "false"
          [] d.tag = "None"  -> "false"
          [] d.tag = "panic" -> "panic"

\* "true" | "false" | "panic"
is_constructible_from(serialized) ==
    LET d == extract_declared_length(serialized)
    IN  CASE d.tag = "Some"  -> IF Len(serialized) = d.v THEN "true" ELSE "false"
          [] d.tag = "None"  -> "false"
          [] d.tag = "panic" -> "panic"

ParseOk(s)   == [ tag |-> "Ok",    err |-> "none", status |-> s ]
ParseErr(e)  == [ tag |-> "Err",   err |-> e,      status |-> NoStatus ]
ParsePanic   == [ tag |-> "panic", err |-> "none", status |-> NoStatus ]

from_bytes(serialized) ==
    LET c == is_constructible_from(serialized)
    IN  IF c = "panic" THEN ParsePanic
        ELSE IF c = "false" THEN ParseErr("PacketTooShort")
        ELSE LET len          == Len(serialized)
                 actual_crc   == crc(SubSeq(serialized, 1, len - 1))
                 declared_crc == serialized[len]
                 d == IF len > 4 THEN SubSeq(serialized, 6, len - 1) ELSE << >>
             IN  IF declared_crc # actual_crc
                 THEN ParseErr("InvalidCrc")
                 ELSE ParseOk(Status(serialized[3], serialized[5], d))

(***************************************************************************)
(* packets.rs: Request                                                     *)
(***************************************************************************)
Ping(i)        == [ variant |-> "Ping",  id |-> i, addr |-> 0, len |-> 0, data |-> << >> ]
Read(i, a, l)  == [ variant |-> "Read",  id |-> i, addr |-> a, len |-> l, data |-> << >> ]
Write(i, a, d) == [ variant |-> "Write", id |-> i, addr |-> a, len |-> 0, data |-> d ]

id_byte(r) == r.id

instruction_byte(r) ==
    CASE r.variant = "Ping"  -> 1
      [] r.variant = "Read"  -> 2
      [] r.variant = "Write" -> 3

len_byte(r) ==
    CASE r.variant = "Ping"  -> 2
      [] r.variant = "Read"  -> 4
      [] r.variant = "Write" -> as_u8(Len(r.data) + 3)

\* a bug of serialized: Read pushes the length before the address
serialized_read_swapped(r) ==
    LET head == << 255, 255, id_byte(r), len_byte(r), instruction_byte(r) >>
        v == CASE r.variant = "Write" -> head \o << r.addr >> \o r.data
               [] r.variant = "Read"  -> head \o << r.len, r.addr >>
               [] OTHER               -> head
    IN  v \o << crc(v) >>

serialized(r) ==
    LET head == << 255, 255, id_byte(r), len_byte(r), instruction_byte(r) >>
        v == CASE r.variant = "Write" -> head \o << r.addr >> \o r.data
               [] r.variant = "Read"  -> head \o << r.addr, r.len >>
               [] OTHER               -> head
    IN  v \o << crc(v) >>

(***************************************************************************)
(* Inputs the codec is applied to                                          *)
(***************************************************************************)
Min(a, b) == IF a < b THEN a ELSE b

\* s[lo] + ... + s[hi] as an integer
RECURSIVE SumRange(_, _, _)
SumRange(s, lo, hi) ==
    IF lo > hi THEN 0
    ELSE IF lo = hi THEN s[lo]
    ELSE LET mid == (lo + hi) \div 2
         IN  SumRange(s, lo, mid) + SumRange(s, mid + 1, hi)

SumBytes(s) == SumRange(s, 1, Len(s))

\* the protocol's checksum, in plain integer arithmetic
ChecksumOf(s) == 255 - (SumBytes(s) % 256)

\* n bytes base, base + step, base + 2 step, ... (mod 256)
Ramp(base, step, n) == [ i \in 1 .. n |-> (base + (i - 1) * step) % 256 ]

LenBytes == (0 .. MaxSmallLenByte) \cup (250 .. 255)

BufLens == (0 .. MaxSmallLen) \cup (254 .. 260)

PayloadLens == (0 .. MaxSmallPayload) \cup (250 .. 255)

DataLens == (0 .. MaxSmallPayload) \cup (248 .. 253)

Ids == { 1, 254 }

ErrorBytes == { 0, 36 }

Headers == { << 255, 255 >>, << 0, 1 >> }

\* a buffer of n bytes laid out as a status frame with length byte b3; its last
\* byte is the right checksum ("good"), a wrong one ("bad") or payload ("raw")
MkBuf(h, i, b3, e, n, fix) ==
    LET raw == SubSeq(h \o << i, b3, e >> \o Ramp(7, 3, n), 1, n)
        sum == ChecksumOf(SubSeq(raw, 3, n - 1))
    IN  IF n < 3 \/ fix = "raw" THEN raw
        ELSE IF fix = "good" THEN [ raw EXCEPT ![n] = sum ]
        ELSE [ raw EXCEPT ![n] = (sum + 1) % 256 ]

\* the byte sequences of the tests of packets.rs
TestBuffers ==
    { << >>, << 0 >>, << 1, 1, 1 >>,
      << 255, 255, 1, 2, 36, 216 >>,
      << 255, 255, 1, 6, 36, 0, 0, 0, 0, 212 >>,
      << 255, 255, 1 >>,
      << 255, 255, 1, 6, 36, 216 >>,
      << 255, 255, 1, 2, 36, 255 >> }

RawBuffers ==
    { MkBuf(h, i, b3, e, n, fix) :
        h \in Headers, i \in Ids, b3 \in LenBytes, e \in ErrorBytes,
        n \in BufLens, fix \in { "good", "bad", "raw" } }
    \cup TestBuffers

\* the wire frame of a status with the given fields
StatusFrame(st) ==
    LET body == << st.id, Len(st.data) + 2, st.error >> \o st.data
    IN  << 255, 255 >> \o body \o << ChecksumOf(body) >>

Statuses ==
    { Status(i, e, Ramp(7, 3, n)) : i \in Ids, e \in ErrorBytes, n \in DataLens }
    \cup { Status(1, 36, << 0, 0, 0, 0 >>) }

Requests ==
    { Ping(i) : i \in Ids \cup { 3 } }
    \cup { Read(i, a, l) : i \in Ids, a \in { 0, 43 }, l \in { 1, 2, 255 } }
    \cup { Write(i, a, Ramp(b, 3, n)) :
             i \in Ids, a \in { 3, 255 }, b \in {1, 250}, n \in PayloadLens }

(***************************************************************************)
(* The codec applied to one drawn input                                    *)
(***************************************************************************)
NoParse == [ tag |-> "none", err |-> "none", status |-> NoStatus ]

NoRet == [ complete |-> "none", parse |-> NoParse, bytes |-> << >>, sum |-> 0 ]

\* what Bus::open did: tag is "Ok" (a Bus), "Err" (err(kind) returned) or
\* "panic"; step is the step that failed, "open" or "configure"
NoOpen == [ tag |-> "none", err |-> "none", kind |-> "none", step |-> "none" ]

OpenedOk == [ tag |-> "Ok", err |-> "none", kind |-> "none", step |-> "none" ]

NoRegRet == [ tag |-> "none", v |-> 0, req |-> Ping(0), addr |-> 0, size |-> 0 ]

RegisterIdle ==
    /\ rreg = "ModelNumber" /\ rid = 0 /\ rdata = << >>
    /\ rop = "none" /\ rret = NoRegRet

CodecIdle ==
    /\ csrc = "none" /\ cbuf = << >> /\ cstatus = NoStatus
    /\ creq = Ping(0) /\ cop = "none" /\ cret = NoRet

TransportIdle ==
    /\ pc = "idle" /\ ncalls = 0 /\ req = Ping(0) /\ request_data = << >>
    /\ nwrites = 0 /\ wres = [ tag |-> "none", kind |-> "none", n |-> 0 ]
    /\ line = << >> /\ output = << >> /\ nreads = 0
    /\ lastRead = [ tag |-> "none", kind |-> "none", n |-> 0 ]
    /\ result = [ tag |-> "none", err |-> "none", kind |-> "none",
                  status |-> NoStatus ]

CodecInit ==
    /\ build \in { "debug", "release" }
    /\ openRes = NoOpen
    /\ TransportIdle
    /\ RegisterIdle
    /\ cop = "none" /\ cret = NoRet
    /\ \/ /\ csrc = "raw" /\ cbuf \in RawBuffers
          /\ cstatus = NoStatus /\ creq = Ping(0)
       \/ /\ csrc = "status" /\ cstatus \in Statuses
          /\ cbuf = StatusFrame(cstatus) /\ creq = Ping(0)
       \/ /\ csrc = "request" /\ creq \in Requests
          /\ cbuf = << >> /\ cstatus = NoStatus

ApplyIsConstructibleFrom ==
    /\ cop = "none" /\ csrc \in { "raw", "status" }
    /\ cop' = "is_constructible_from"
    /\ cret' = [ NoRet EXCEPT !.complete = is_constructible_from(cbuf) ]
    /\ UNCHANGED << build, openRes, transportVars, registerVars,
                    csrc, cbuf, cstatus, creq >>

ApplyFromBytes ==
    /\ cop = "none" /\ csrc \in { "raw", "status" }
    /\ cop' = "from_bytes"
    /\ cret' = [ NoRet EXCEPT !.parse = from_bytes(cbuf) ]
    /\ UNCHANGED << build, openRes, transportVars, registerVars,
                    csrc, cbuf, cstatus, creq >>

ApplyCrcData ==
    /\ cop = "none" /\ csrc = "raw"
    /\ cop' = "crc_data"
    /\ cret' = [ NoRet EXCEPT !.sum = crc_data(cbuf) ]
    /\ UNCHANGED << build, openRes, transportVars, registerVars,
                    csrc, cbuf, cstatus, creq >>

ApplySerialized ==
    /\ cop = "none" /\ csrc = "request"
    /\ cop' = "serialized"
    /\ cret' = [ NoRet EXCEPT !.bytes = serialized(creq) ]
    /\ UNCHANGED << build, openRes, transportVars, registerVars,
                    csrc, cbuf, cstatus, creq >>

CodecNext ==
    \/ ApplyIsConstructibleFrom
    \/ ApplyFromBytes
    \/ ApplyCrcData
    \/ ApplySerialized

CodecSpec == CodecInit /\ [][CodecNext]_vars

(***************************************************************************)
(* bus.rs: Bus::exchange and Bus::read_packet                              *)
(***************************************************************************)
\* categories of std::io::Error the port can report
IoKinds == { "TimedOut", "BrokenPipe" }

\* bus::Result<Status>, or the abort of the process
NoResult      == [ tag |-> "none",  err |-> "none", kind |-> "none", status |-> NoStatus ]
ResOk(s)      == [ tag |-> "Ok",    err |-> "none", kind |-> "none", status |-> s ]
ResErr(e, k)  == [ tag |-> "Err",   err |-> e,      kind |-> k,      status |-> NoStatus ]
ResPanic      == [ tag |-> "panic", err |-> "none", kind |-> "none", status |-> NoStatus ]

\* what a call of port.write / port.read returned
NoIo          == [ tag |-> "none", kind |-> "none", n |-> 0 ]
IoErr(k)      == [ tag |-> "Err",  kind |-> k,      n |-> 0 ]
IoOk(n)       == [ tag |-> "Ok",   kind |-> "none", n |-> n ]

\* a bug of exchange_write: a short write is taken for a full one
exchange_write_ignores_short(w, len) ==
    IF w.tag = "Err" THEN [ pc |-> "returned", result |-> ResErr("WriteError", w.kind) ]
    ELSE [ pc |-> "read", result |-> NoResult ]

\* the match on port.write's result: the next position and, when exchange
\* returns there, its result
exchange_write(w, len) ==
    IF w.tag = "Err" THEN [ pc |-> "returned", result |-> ResErr("WriteError", w.kind) ]
    ELSE IF w.n # len THEN [ pc |-> "returned", result |-> ResErr("TransferError", "none") ]
    ELSE [ pc |-> "read", result |-> NoResult ]

\* a bug of read_packet: a read of zero bytes is retried like any other
\* incomplete read
read_packet_zero_retries(out, r, bytes) ==
    IF r.tag = "Err"
    THEN [ brk |-> "Err", output |-> out, err |-> ResErr("ReadError", r.kind) ]
    ELSE LET grown == out \o bytes
             c     == is_constructible_from(grown)
         IN  CASE c = "true"  -> [ brk |-> "Ok",    output |-> grown, err |-> NoResult ]
               [] c = "false" -> [ brk |-> "loop",  output |-> grown, err |-> NoResult ]
               [] c = "panic" -> [ brk |-> "panic", output |-> grown, err |-> ResPanic ]

\* a bug of read_packet: the loop gives up once the scratch window's size has
\* been accumulated without a complete packet
read_packet_bounded(out, r, bytes) ==
    IF r.tag = "Err"
    THEN [ brk |-> "Err", output |-> out, err |-> ResErr("ReadError", r.kind) ]
    ELSE IF r.n = 0
    THEN [ brk |-> "Err", output |-> out, err |-> ResErr("TransferError", "none") ]
    ELSE LET grown == out \o bytes
             c     == is_constructible_from(grown)
         IN  CASE c = "true"  -> [ brk |-> "Ok",    output |-> grown, err |-> NoResult ]
               [] c = "false" ->
                    IF Len(grown) >= ScratchLen
                    THEN [ brk |-> "Err", output |-> grown,
                           err |-> ResErr("TransferError", "none") ]
                    ELSE [ brk |-> "loop",  output |-> grown, err |-> NoResult ]
               [] c = "panic" -> [ brk |-> "panic", output |-> grown, err |-> ResPanic ]

\* a bug of read_packet: the loop breaks as soon as the minimum frame length
\* has been accumulated
read_packet_breaks_early(out, r, bytes) ==
    IF r.tag = "Err"
    THEN [ brk |-> "Err", output |-> out, err |-> ResErr("ReadError", r.kind) ]
    ELSE IF r.n = 0
    THEN [ brk |-> "Err", output |-> out, err |-> ResErr("TransferError", "none") ]
    ELSE LET grown == out \o bytes
         IN  IF Len(grown) >= MinFrameLen
             THEN [ brk |-> "Ok",   output |-> grown, err |-> NoResult ]
             ELSE [ brk |-> "loop", output |-> grown, err |-> NoResult ]

\* a bug of read_packet: the bytes read replace the buffer instead of being
\* appended to it
read_packet_overwrites(out, r, bytes) ==
    IF r.tag = "Err"
    THEN [ brk |-> "Err", output |-> out, err |-> ResErr("ReadError", r.kind) ]
    ELSE IF r.n = 0
    THEN [ brk |-> "Err", output |-> out, err |-> ResErr("TransferError", "none") ]
    ELSE LET grown == bytes
             c     == is_constructible_from(grown)
         IN  CASE c = "true"  -> [ brk |-> "Ok",    output |-> grown, err |-> NoResult ]
               [] c = "false" -> [ brk |-> "loop",  output |-> grown, err |-> NoResult ]
               [] c = "panic" -> [ brk |-> "panic", output |-> grown, err |-> ResPanic ]

\* one iteration of read_packet's loop: r is what port.read returned, bytes the
\* first r.n bytes of the scratch window
read_packet(out, r, bytes) ==
    IF r.tag = "Err"
    THEN [ brk |-> "Err", output |-> out, err |-> ResErr("ReadError", r.kind) ]
    ELSE IF r.n = 0
    THEN [ brk |-> "Err", output |-> out, err |-> ResErr("TransferError", "none") ]
    ELSE LET grown == out \o bytes
             c     == is_constructible_from(grown)
         IN  CASE c = "true"  -> [ brk |-> "Ok",    output |-> grown, err |-> NoResult ]
               [] c = "false" -> [ brk |-> "loop",  output |-> grown, err |-> NoResult ]
               [] c = "panic" -> [ brk |-> "panic", output |-> grown, err |-> ResPanic ]

\* a bug of exchange: a complete buffer with a wrong checksum still yields a
\* Status
exchange_read_accepts_bad_crc(rp) ==
    IF rp.brk = "Ok"
    THEN LET b == rp.output
         IN  ResOk(Status(b[3], b[5], SubSeq(b, 6, Len(b) - 1)))
    ELSE rp.err

\* the match on read_packet's result, once the loop has broken
exchange_read(rp) ==
    IF rp.brk = "Ok"
    THEN LET parsed == from_bytes(rp.output)
         IN  CASE parsed.tag = "Ok"    -> ResOk(parsed.status)
               [] parsed.tag = "Err"   -> ResErr("DataError", parsed.err)
               [] parsed.tag = "panic" -> ResPanic
    ELSE rp.err

\* requests given to exchange
ExchangeRequests == { Ping(1), Read(1, 43, 1), Write(254, 3, << 1 >>) }

\* what the device sends after a request: frames with the declared length byte
\* right, one byte too many, cut short, or nothing at all
StreamLenBytes == (0 .. MaxSmallLenByte) \cup { 124, 251, 252, 255 }

Streams ==
    { << >>, << 255, 255, 1 >> }
    \cup UNION { { MkBuf(<< 255, 255 >>, 1, b3, 36, b3 + 4, fix),
                   MkBuf(<< 255, 255 >>, 1, b3, 36, b3 + 5, fix) } :
                 b3 \in StreamLenBytes, fix \in { "good", "bad" } }

\* the answers explored behind bytes that are still unread: the short frames
ShortStreams == { s \in Streams : Len(s) <= MaxSmallLenByte + 5 }

\* what the device may send after a request, given what is pending on the port
Answers(pending) == IF pending = << >> THEN Streams ELSE ShortStreams

\* sizes port.read may return when that many bytes are there
ChunkSizes == { 1, ScratchLen - 1, ScratchLen }

\* Bus::open: o is what serial::open returned, c what p.configure returned
\* (map_err(..)? on the first, unwrap() on the second)
open(o, c) ==
    IF o.tag = "Err"
    THEN [ tag |-> "Err", err |-> "SerialError", kind |-> o.kind, step |-> "open" ]
    ELSE IF c.tag = "Err"
    THEN [ tag |-> "panic", err |-> "none", kind |-> c.kind, step |-> "configure" ]
    ELSE OpenedOk

\* categories of serial::Error
SerialKinds == { "NoDevice", "InvalidInput" }

\* no Bus yet
Init ==
    /\ build \in { "debug", "release" }
    /\ openRes = NoOpen
    /\ pc = "closed" /\ ncalls = 0 /\ req = Ping(0) /\ request_data = << >>
    /\ nwrites = 0 /\ wres = NoIo
    /\ line = << >> /\ output = << >> /\ nreads = 0
    /\ lastRead = NoIo
    /\ result = NoResult
    /\ CodecIdle
    /\ RegisterIdle

\* Bus::open(port, baud) runs
Open ==
    /\ pc = "closed"
    /\ \E o \in { IoErr(k) : k \in SerialKinds } \cup { IoOk(0) },
          c \in { IoErr(k) : k \in SerialKinds } \cup { IoOk(0) } :
         /\ openRes' = open(o, c)
         /\ pc' = CASE openRes'.tag = "Ok"    -> "idle"
                    [] openRes'.tag = "Err"   -> "open_failed"
                    [] openRes'.tag = "panic" -> "aborted"
    /\ UNCHANGED << build, ncalls, req, request_data, nwrites, wres, line, output,
                    nreads, lastRead, result, codecVars, registerVars >>

\* exchange is entered: let request_data = p.serialized(); the port is not
\* flushed, so bytes the previous exchange left unread stay on the line
Call ==
    /\ pc \in { "idle", "returned" }
    /\ ncalls < MaxExchanges
    /\ Len(line) <= MaxPending
    /\ \E p \in ExchangeRequests :
         /\ req' = p
         /\ request_data' = serialized(p)
    /\ ncalls' = ncalls + 1
    /\ pc' = "write"
    /\ nwrites' = 0 /\ wres' = NoIo
    /\ nreads' = 0 /\ lastRead' = NoIo
    /\ output' = << >>
    /\ result' = NoResult
    /\ UNCHANGED << build, openRes, line, codecVars, registerVars >>

\* self.port.write(request_data) returns; read_packet starts with an empty Vec.
\* The write leaves the input side alone: the device's answer arrives behind
\* whatever is still unread
PortWrite ==
    /\ pc = "write"
    /\ \E w \in { IoErr(k) : k \in IoKinds }
                \cup { IoOk(n) : n \in 0 .. Len(request_data) } :
         LET step == exchange_write(w, Len(request_data))
         IN  /\ wres' = w
             /\ pc' = step.pc
             /\ result' = step.result
             /\ IF step.pc = "read"
                THEN \E s \in Answers(line) : line' = line \o s
                ELSE line' = line
    /\ nwrites' = nwrites + 1
    /\ output' = << >>
    /\ UNCHANGED << build, openRes, ncalls, req, request_data, nreads, lastRead,
                    codecVars, registerVars >>

\* self.port.read(local_buf) returns, and the loop body runs up to the next
\* read or up to the return of exchange
PortRead ==
    /\ pc = "read"
    /\ \E r \in { IoErr(k) : k \in IoKinds } \cup { IoOk(0) }
                \cup { IoOk(Min(c, Len(line))) : c \in ChunkSizes } :
         LET bytes == SubSeq(line, 1, r.n)
             rp    == read_packet(output, r, bytes)
         IN  /\ lastRead' = r
             /\ line' = SubSeq(line, r.n + 1, Len(line))
             /\ output' = rp.output
             /\ IF rp.brk = "loop"
                THEN /\ pc' = "read"
                     /\ result' = NoResult
                ELSE /\ result' = exchange_read(rp)
                     /\ pc' = IF result'.tag = "panic" THEN "aborted" ELSE "returned"
    /\ nreads' = nreads + 1
    /\ UNCHANGED << build, openRes, ncalls, req, request_data, nwrites, wres,
                    codecVars, registerVars >>

Next ==
    \/ Open
    \/ Call
    \/ PortWrite
    \/ PortRead

Spec == Init /\ [][Next]_vars

(***************************************************************************)
(* ax12.rs: the register table                                             *)
(***************************************************************************)
\* enum Register, in declaration order: a variant's discriminant (`as usize`)
\* is its position here, counted from 0
RegisterOrder ==
    << "ModelNumber", "FirmwareVersion", "Id", "BaudRate",
       "ReturnDelayTime", "CWAngleLimit", "CCWAngleLimit", "TemperatureLimit",
       "VoltageLimitLow", "VoltageLimitHigh", "MaxLoad", "StatusReturnLevel",
       "AlarmLed", "AlarmShutdown", "TorqueEnable", "LedEnable",
       "CwComplianceMargin", "CcwComplianceMargin", "CwComplianceSlope", "CcwComplianceSlope",
       "GoalPosition", "MovingSpeed", "TorqueLimit", "PresentPosition",
       "PresentSpeed", "PresentLoad", "PresentVoltage", "PresentTemperature",
       "Registered", "Moving", "Lock", "Punch" >>

Registers == { RegisterOrder[i] : i \in 1 .. Len(RegisterOrder) }

\* *self as usize
discriminant(reg) ==
    (CHOOSE i \in 1 .. Len(RegisterOrder) : RegisterOrder[i] = reg) - 1

\* static REGISTER_INFO, in table order (descriptions left out)
REGISTER_INFO ==
    << [ address |-> 0, size |-> "HalfWord", access |-> "R" ],
       [ address |-> 2, size |-> "Byte", access |-> "R" ],
       [ address |-> 3, size |-> "Byte", access |-> "RW" ],
       [ address |-> 4, size |-> "Byte", access |-> "RW" ],
       [ address |-> 5, size |-> "Byte", access |-> "RW" ],
       [ address |-> 6, size |-> "HalfWord", access |-> "RW" ],
       [ address |-> 8, size |-> "HalfWord", access |-> "RW" ],
       [ address |-> 11, size |-> "Byte", access |-> "RW" ],
       [ address |-> 12, size |-> "Byte", access |-> "RW" ],
       [ address |-> 13, size |-> "Byte", access |-> "RW" ],
       [ address |-> 14, size |-> "HalfWord", access |-> "RW" ],
       [ address |-> 16, size |-> "Byte", access |-> "RW" ],
       [ address |-> 17, size |-> "Byte", access |-> "RW" ],
       [ address |-> 18, size |-> "Byte", access |-> "RW" ],
       [ address |-> 24, size |-> "Byte", access |-> "RW" ],
       [ address |-> 25, size |-> "Byte", access |-> "RW" ],
       [ address |-> 26, size |-> "Byte", access |-> "RW" ],
       [ address |-> 27, size |-> "Byte", access |-> "RW" ],
       [ address |-> 28, size |-> "Byte", access |-> "RW" ],
       [ address |-> 29, size |-> "Byte", access |-> "RW" ],
       [ address |-> 30, size |-> "HalfWord", access |-> "RW" ],
       [ address |-> 32, size |-> "HalfWord", access |-> "RW" ],
       [ address |-> 34, size |-> "HalfWord", access |-> "RW" ],
       [ address |-> 36, size |-> "HalfWord", access |-> "R" ],
       [ address |-> 38, size |-> "HalfWord", access |-> "R" ],
       [ address |-> 40, size |-> "HalfWord", access |-> "R" ],
       [ address |-> 42, size |-> "Byte", access |-> "R" ],
       [ address |-> 43, size |-> "Byte", access |-> "R" ],
       [ address |-> 44, size |-> "Byte", access |-> "R" ],
       [ address |-> 46, size |-> "Byte", access |-> "R" ],
       [ address |-> 47, size |-> "Byte", access |-> "RW" ],
       [ address |-> 48, size |-> "HalfWord", access |-> "RW" ] >>

\* Size::len
size_len(size) == IF size = "Byte" THEN 1 ELSE 2

RegOk(v)      == [ NoRegRet EXCEPT !.tag = "Ok", !.v = v ]
RegPanic      == [ NoRegRet EXCEPT !.tag = "panic" ]

\* a bug of info: the table is indexed one entry too far
info_off_by_one(reg) ==
    LET i == discriminant(reg) + 1
    IN  IF i >= Len(REGISTER_INFO)
        THEN RegPanic
        ELSE [ NoRegRet EXCEPT !.tag = "Ok",
                               !.addr = REGISTER_INFO[i + 1].address,
                               !.size = size_len(REGISTER_INFO[i + 1].size) ]

\* Register::info: &REGISTER_INFO[*self as usize]; an index outside the table
\* aborts
info(reg) ==
    LET i == discriminant(reg)
    IN  IF i >= Len(REGISTER_INFO)
        THEN RegPanic
        ELSE [ NoRegRet EXCEPT !.tag = "Ok",
                               !.addr = REGISTER_INFO[i + 1].address,
                               !.size = size_len(REGISTER_INFO[i + 1].size) ]

\* Register::read_request
read_request(reg, id) ==
    LET i == info(reg)
    IN  IF i.tag = "panic" THEN RegPanic
        ELSE [ NoRegRet EXCEPT !.tag = "Ok", !.req = Read(id, i.addr, as_u8(i.size)) ]

\* rdr.read_u16::<LittleEndian>() on Cursor::new(data): two bytes from the
\* start of data, the first one the low byte; Err(UnexpectedEof) when data has
\* fewer than two bytes
read_u16_le(data) ==
    IF Len(data) < 2 THEN [ tag |-> "Err", v |-> 0 ]
    ELSE [ tag |-> "Ok", v |-> data[1] + data[2] * U8Range ]

\* a bug of read_u16_le: the first byte is taken as the high byte
read_u16_be(data) ==
    IF Len(data) < 2 THEN [ tag |-> "Err", v |-> 0 ]
    ELSE [ tag |-> "Ok", v |-> data[1] * U8Range + data[2] ]

\* a bug of parse_read_value: the two bytes are read big-endian
parse_read_value_big_endian(reg, status) ==
    IF Len(status.data) = 1
    THEN RegOk(status.data[1])
    ELSE LET r == read_u16_be(status.data)
         IN  IF r.tag = "Err" THEN RegPanic ELSE RegOk(r.v)

\* Register::parse_read_value; unwrap() aborts on Err
parse_read_value(reg, status) ==
    IF Len(status.data) = 1
    THEN RegOk(status.data[1])
    ELSE LET r == read_u16_le(status.data)
         IN  IF r.tag = "Err" THEN RegPanic ELSE RegOk(r.v)

\* payloads given to parse_read_value have 0..MaxValueLen bytes
ValueData == { Ramp(b, 1, n) : b \in { 1, 42, 255 }, n \in 0 .. MaxValueLen }

RegisterInit ==
    /\ build \in { "debug", "release" }
    /\ openRes = NoOpen
    /\ TransportIdle
    /\ CodecIdle
    /\ rreg \in Registers
    /\ rid \in { 0, 1, 254 }
    /\ rdata \in ValueData
    /\ rop = "none" /\ rret = NoRegRet

ApplyInfo ==
    /\ rop = "none"
    /\ rop' = "info"
    /\ rret' = info(rreg)
    /\ UNCHANGED << build, openRes, transportVars, codecVars, rreg, rid, rdata >>

ApplyReadRequest ==
    /\ rop = "none"
    /\ rop' = "read_request"
    /\ rret' = read_request(rreg, rid)
    /\ UNCHANGED << build, openRes, transportVars, codecVars, rreg, rid, rdata >>

ApplyParseReadValue ==
    /\ rop = "none"
    /\ rop' = "parse_read_value"
    /\ rret' = parse_read_value(rreg, Status(rid, 0, rdata))
    /\ UNCHANGED << build, openRes, transportVars, codecVars, rreg, rid, rdata >>

RegisterNext ==
    \/ ApplyInfo
    \/ ApplyReadRequest
    \/ ApplyParseReadValue

RegisterSpec == RegisterInit /\ [][RegisterNext]_vars

(***************************************************************************)
(* Properties                                                              *)
(***************************************************************************)
\* IsComplete as the specification words it: plain integer arithmetic
PlainComplete(b) == Len(b) >= 6 /\ Len(b) = b[4] + 4

\* the last byte of b is the checksum of its bytes from index 2 (0-based) to
\* the second-to-last
PlainChecksumValid(b) == b[Len(b)] = ChecksumOf(SubSeq(b, 3, Len(b) - 1))

\* C1: whenever exchange returns a Status, the request had been written in
\* full by the one write, the accumulation buffer is complete, its final byte
\* is the checksum of bytes 2 .. second-to-last, and the Status is exactly the
\* parse of that buffer (id, error and data taken from it).
C1_StatusOnlyFromValidBuffer ==
    result.tag = "Ok" =>
        /\ pc = "returned"
        /\ nwrites = 1 /\ wres.tag = "Ok" /\ wres.n = Len(request_data)
        /\ request_data # << >>
        /\ PlainComplete(output)
        /\ PlainChecksumValid(output)
        /\ result.status = Status(output[3], output[5],
                                  SubSeq(output, 6, Len(output) - 1))
        /\ from_bytes(output) = ParseOk(result.status)

\* C1 witness: a Status with data was returned after more than one read
C1_Witness ==
    /\ result.tag = "Ok" /\ pc = "returned"
    /\ Len(result.status.data) > 0 /\ nreads > 1

\* C2 as claimed: is_constructible_from is false below 6 bytes and otherwise
\* tells whether the length equals buffer[3] + 4 as a plain integer sum, for
\* every length byte, without ever aborting.
C2_IsCompleteIsPlainSum ==
    cop = "is_constructible_from" =>
        cret.complete = IF PlainComplete(cbuf) THEN "true" ELSE "false"

\* C3 as claimed: for every Request the length byte of the serialized frame is
\* the number of bytes after it: 2 for Ping, 4 for Read, payload + 3 for Write.
C3_LenByteIsBytesThatFollow ==
    cop = "serialized" =>
        /\ cret.bytes[4] = Len(cret.bytes) - 4
        /\ cret.bytes[4] = CASE creq.variant = "Ping"  -> 2
                             [] creq.variant = "Read"  -> 4
                             [] creq.variant = "Write" -> Len(creq.data) + 3

\* C4 as claimed: from_bytes fails with PacketTooShort exactly when the buffer
\* is not complete, with InvalidCrc exactly when it is complete and its last
\* byte is not the checksum, and succeeds in every other case.
C4_ParseErrors ==
    cop = "from_bytes" =>
        /\ (cret.parse = ParseErr("PacketTooShort")) <=> ~PlainComplete(cbuf)
        /\ (cret.parse = ParseErr("InvalidCrc"))
              <=> (PlainComplete(cbuf) /\ ~PlainChecksumValid(cbuf))
        /\ (cret.parse.tag = "Ok")
              <=> (PlainComplete(cbuf) /\ PlainChecksumValid(cbuf))

\* C5 as claimed: for every complete, checksum-valid buffer of N bytes
\* from_bytes returns id = buffer[2], error = buffer[4], data = buffer[5..N-2],
\* with data length = buffer[3] - 2 = N - 6.
C5_ParseFields ==
    (cop = "from_bytes" /\ PlainComplete(cbuf) /\ PlainChecksumValid(cbuf)) =>
        /\ cret.parse = ParseOk(Status(cbuf[3], cbuf[5],
                                       SubSeq(cbuf, 6, Len(cbuf) - 1)))
        /\ Len(cret.parse.status.data) = cbuf[4] - 2
        /\ Len(cret.parse.status.data) = Len(cbuf) - 6

\* C6 as claimed: the status frame built from any id, error byte and data of
\* 0..253 bytes parses back to exactly Status{id, error, data}.
C6_RoundTrip ==
    (cop = "from_bytes" /\ csrc = "status") => cret.parse = ParseOk(cstatus)

\* C7: serialized produces 0xFF, 0xFF, the id, the length byte, the
\* instruction byte (Ping 1, Read 2, Write 3), the variant body (nothing; address
\* then length; address then the payload in order) and last the checksum of
\* every preceding byte but the two markers.
C7_SerializedLayout ==
    cop = "serialized" =>
        LET b == cret.bytes
            n == Len(b)
        IN  /\ n >= 6
            /\ b[1] = 255 /\ b[2] = 255
            /\ b[3] = creq.id
            /\ b[4] = len_byte(creq)
            /\ b[5] = CASE creq.variant = "Ping"  -> 1
                        [] creq.variant = "Read"  -> 2
                        [] creq.variant = "Write" -> 3
            /\ SubSeq(b, 6, n - 1) =
                  CASE creq.variant = "Ping"  -> << >>
                    [] creq.variant = "Read"  -> << creq.addr, creq.len >>
                    [] creq.variant = "Write" -> << creq.addr >> \o creq.data
            /\ b[n] = ChecksumOf(SubSeq(b, 3, n - 1))
            /\ (creq = Ping(3) => b = << 255, 255, 3, 2, 1, 249 >>)
            /\ (creq = Write(254, 3, << 1 >>)
                  => b = << 255, 255, 254, 4, 3, 3, 1, 246 >>)
            /\ (creq = Read(1, 43, 1)
                  => b = << 255, 255, 1, 4, 2, 43, 1, 204 >>)

\* C7 witness: a Write whose payload bytes differ from one another and from
\* the address was serialized
C7_Witness ==
    /\ cop = "serialized" /\ creq.variant = "Write"
    /\ Len(creq.data) >= 2 /\ creq.data[1] # creq.data[2]
    /\ creq.addr # creq.data[1]

\* C8: the checksum of a byte sequence is 255 - (sum of its bytes mod 256): a
\* byte, 0xFF for the empty sequence and for [0], 0xFC for [1,1,1]; requests
\* and accepted status frames both end in that checksum of the bytes after the
\* markers.
C8_ChecksumIsComplementOfSum ==
    /\ cop = "crc_data" =>
          /\ cret.sum = 255 - (SumBytes(cbuf) % 256)
          /\ cret.sum \in 0 .. 255
          /\ (cbuf = << >> => cret.sum = 255)
          /\ (cbuf = << 0 >> => cret.sum = 255)
          /\ (cbuf = << 1, 1, 1 >> => cret.sum = 252)
    /\ cop = "serialized" =>
          cret.bytes[Len(cret.bytes)]
             = 255 - (SumBytes(SubSeq(cret.bytes, 3, Len(cret.bytes) - 1)) % 256)
    /\ (cop = "from_bytes" /\ cret.parse.tag = "Ok") =>
          cbuf[Len(cbuf)] = 255 - (SumBytes(SubSeq(cbuf, 3, Len(cbuf) - 1)) % 256)

\* C8 witness: the checksum of bytes whose sum passes 255 was computed
C8_Witness ==
    /\ cop = "crc_data" /\ SumBytes(cbuf) > 255 /\ cret.sum \in 1 .. 254

\* C9: exchange writes once, before any read; a write that reports an I/O
\* error makes it return WriteError with that kind, a write of fewer bytes than
\* the serialized request makes it return TransferError, and in both cases no
\* read is issued.
C9_WriteBeforeRead ==
    /\ nwrites <= 1
    /\ nreads > 0 =>
          (nwrites = 1 /\ wres.tag = "Ok" /\ wres.n = Len(request_data))
    /\ wres.tag = "Err" =>
          /\ pc = "returned" /\ result = ResErr("WriteError", wres.kind)
          /\ nreads = 0 /\ nwrites = 1
    /\ (wres.tag = "Ok" /\ wres.n < Len(request_data)) =>
          /\ pc = "returned" /\ result = ResErr("TransferError", "none")
          /\ nreads = 0 /\ nwrites = 1

\* C9 witness: a write of some but not all bytes ended the exchange
C9_Witness ==
    /\ pc = "returned" /\ wres.tag = "Ok"
    /\ wres.n > 0 /\ wres.n < Len(request_data)

\* C10: in the read loop a read of zero bytes makes exchange return
\* TransferError and a read that fails makes it return ReadError with the
\* error's kind, at once and whatever was accumulated: the failed read is the
\* last read of the exchange.
C10_ReadFailureEndsExchange ==
    /\ (lastRead.tag = "Ok" /\ lastRead.n = 0) =>
          (pc = "returned" /\ result = ResErr("TransferError", "none"))
    /\ lastRead.tag = "Err" =>
          (pc = "returned" /\ result = ResErr("ReadError", lastRead.kind))
    /\ pc = "read" => (nreads = 0 \/ (lastRead.tag = "Ok" /\ lastRead.n > 0))

\* C10 witness: a read returned zero bytes after bytes had been accumulated
C10_Witness ==
    /\ lastRead.tag = "Ok" /\ lastRead.n = 0
    /\ Len(output) > 0 /\ nreads > 1

\* C11: after a successful write exchange returns only when the buffer is
\* complete after a read, or a read returned zero bytes, or a read failed:
\* as long as every read returned at least one byte and the buffer is not
\* complete, exchange has not returned, however many reads were made.
C11_ReturnsOnlyOnCompletionOrFailure ==
    /\ (pc = "returned" /\ wres.tag = "Ok" /\ wres.n = Len(request_data)) =>
          \/ lastRead.tag = "Err"
          \/ (lastRead.tag = "Ok" /\ lastRead.n = 0 /\ nreads > 0)
          \/ (lastRead.tag = "Ok" /\ lastRead.n > 0 /\ PlainComplete(output))
    /\ (nreads > 0 /\ lastRead.tag = "Ok" /\ lastRead.n > 0
          /\ ~PlainComplete(output)) => pc # "returned"

\* C11 witness: more reads than the scratch window has bytes were made, each
\* returned bytes, the buffer has outgrown its declared total, and exchange is
\* still reading
C11_Witness ==
    /\ pc = "read" /\ nreads > ScratchLen
    /\ lastRead.tag = "Ok" /\ lastRead.n > 0
    /\ Len(output) > output[4] + 4

\* C15 as claimed: Bus::open returns Err(SerialError) both when opening the
\* port fails and when configuring the opened port fails, returns a Bus only
\* when both steps succeeded, and never aborts.
C15_OpenFailuresAreSerialError ==
    /\ openRes.tag # "panic"
    /\ openRes.step \in { "open", "configure" } =>
          (openRes.tag = "Err" /\ openRes.err = "SerialError" /\ pc = "open_failed")
    /\ openRes.tag = "Ok" => openRes.step = "none"

\* C12 as claimed: parse_read_value given a payload of neither 1 nor 2 bytes
\* fails loudly and returns no value.
C12_WrongWidthFailsLoudly ==
    (rop = "parse_read_value" /\ Len(rdata) \notin { 1, 2 }) => rret.tag = "panic"

\* C13: for every register parse_read_value returns data[0] for a payload of
\* exactly 1 byte and data[0] + 256 * data[1] for one of exactly 2 bytes,
\* whatever the width the register declares.
C13_DecodeValue ==
    rop = "parse_read_value" =>
        /\ Len(rdata) = 1 => rret = RegOk(rdata[1])
        /\ Len(rdata) = 2 =>
              /\ rret = RegOk(rdata[1] + 256 * rdata[2])
              /\ rret.v \in 0 .. 65535
        /\ rdata = << 42 >> => rret.v = 42
        /\ rdata = << 1, 2 >> => rret.v = 513
        /\ Len(rdata) \in { 1, 2 } =>
              \A r \in Registers :
                  parse_read_value(r, Status(rid, 0, rdata)) = rret

\* C13 witness: a 2-byte payload with differing bytes was decoded for a
\* register that declares 1 byte
C13_Witness ==
    /\ rop = "parse_read_value" /\ Len(rdata) = 2 /\ rdata[1] # rdata[2]
    /\ REGISTER_INFO[discriminant(rreg) + 1].size = "Byte"
    /\ rret.tag = "Ok"

\* C14: there are 32 registers, each one's index lies inside the descriptor
\* table, and read_request returns Read{id, address, length} with the given
\* id and the address and width (1 or 2) of the register's own descriptor.
C14_ReadRequestMatchesDescriptor ==
    /\ Cardinality(Registers) = 32
    /\ rop = "read_request" =>
          LET i == discriminant(rreg)
          IN  /\ i \in 0 .. (Len(REGISTER_INFO) - 1)
              /\ rret.tag = "Ok"
              /\ rret.req.variant = "Read"
              /\ rret.req.id = rid
              /\ rret.req.addr = REGISTER_INFO[i + 1].address
              /\ rret.req.len =
                    (IF REGISTER_INFO[i + 1].size = "Byte" THEN 1 ELSE 2)
              /\ rret.req.len \in { 1, 2 }
              /\ (rreg = "ModelNumber" => rret.req = Read(rid, 0, 2))
              /\ (rreg = "GoalPosition" => rret.req = Read(rid, 30, 2))
              /\ (rreg = "PresentTemperature" => rret.req = Read(rid, 43, 1))
              /\ (rreg = "Punch" => rret.req = Read(rid, 48, 2))

\* C14 witness: a read request was built for the last register of the table
C14_Witness ==
    /\ rop = "read_request" /\ rreg = "Punch" /\ rid = 254
    /\ rret.tag = "Ok"

\* a well-formed status frame: markers, id, length byte L in 2..255, error,
\* L - 2 data bytes and the checksum
WellFormedFrame(b) ==
    /\ Len(b) >= 6 /\ b[1] = 255 /\ b[2] = 255
    /\ b[4] \in 2 .. 255 /\ Len(b) = b[4] + 4
    /\ PlainChecksumValid(b)

\* C16 as claimed: once non-empty reads have delivered exactly the bytes of
\* one well-formed status frame, however split, exchange has returned that
\* frame's Status, for every length byte 2..255.
C16_ChunkingIndependence ==
    (nreads > 0 /\ line = << >> /\ lastRead.tag = "Ok" /\ lastRead.n > 0
        /\ WellFormedFrame(output)) =>
        /\ pc = "returned"
        /\ result = ResOk(Status(output[3], output[5],
                                 SubSeq(output, 6, Len(output) - 1)))

\* the buffer can no longer become complete: its length byte is 0 or 1, or it
\* has grown past its declared total
PastDeclared(b) == Len(b) >= 4 /\ (b[4] <= 1 \/ Len(b) > b[4] + 4)

\* C17: at most one prefix of what the line delivers is complete; and once the
\* buffer has passed its declared total (or its length byte is 0 or 1)
\* exchange is still reading or has ended with TransferError or ReadError,
\* never with a Status or a DataError.
C17_OvershootNeverCompletes ==
    /\ (pc = "read" /\ nreads = 0) =>
          Cardinality({ k \in 0 .. Len(line) :
                          is_constructible_from(SubSeq(line, 1, k)) = "true" }) <= 1
    /\ PastDeclared(output) =>
          /\ result.tag # "Ok"
          /\ result.err # "DataError"
          /\ pc = "returned" => result.err \in { "TransferError", "ReadError" }

\* C17 witness: one read carried the buffer from below its declared total to
\* above it, and the exchange later ended with TransferError
C17_Witness ==
    /\ pc = "returned" /\ result = ResErr("TransferError", "none")
    /\ Len(output) >= 6 /\ output[4] >= 2 /\ Len(output) > output[4] + 4
    /\ nreads >= 2

\* C18: the only codec error exchange returns is DataError(InvalidCrc);
\* DataError(PacketTooShort) and MalformedPacket are never returned.
C18_OnlyInvalidCrc ==
    /\ result.err = "DataError" =>
          (result.kind = "InvalidCrc" /\ PlainComplete(output)
             /\ ~PlainChecksumValid(output))
    /\ result.kind \notin { "PacketTooShort", "MalformedPacket" }

\* C18 witness: exchange returned DataError(InvalidCrc)
C18_Witness ==
    /\ pc = "returned" /\ result = ResErr("DataError", "InvalidCrc")

\* C19: every exchange starts reading with an empty buffer, and every read
\* appends exactly the bytes it returned: the previous contents stay as a
\* prefix, so nothing of an earlier exchange is in the buffer.
C19_BufferOnlyGrowsWithinExchange ==
    [][ /\ (pc # "read" /\ pc' = "read") => output' = << >>
        /\ ncalls' # ncalls => output' = << >>
        /\ nreads' = nreads + 1 =>
              /\ lastRead'.n <= ScratchLen
              /\ output' = output \o SubSeq(line, 1, lastRead'.n)
              /\ line = SubSeq(line, 1, lastRead'.n) \o line'
        /\ (nreads' = 1 /\ nreads = 0) =>
              output' = SubSeq(line, 1, lastRead'.n) ]_vars

\* C19 witness: the second exchange on the Bus has accumulated bytes in more
\* than one read
C19_Witness ==
    /\ ncalls = 2 /\ nreads > 1 /\ Len(output) > 1 /\ pc = "read"
    /\ output[1] # 255

\* the buffer b with its two header bytes replaced by h
WithHeader(b, h) == h \o SubSeq(b, 3, Len(b))

\* C20: is_constructible_from and from_bytes give the same result for buffers
\* that differ only in their two header bytes; a frame with a header other
\* than 0xFF 0xFF, a right length and a right checksum is accepted.
C20_HeaderIsIgnored ==
    /\ (cop = "is_constructible_from" /\ Len(cbuf) >= 2) =>
          \A h \in { << 255, 255 >>, << 0, 0 >>, << 0, 1 >>, << 18, 52 >> } :
              is_constructible_from(WithHeader(cbuf, h)) = cret.complete
    /\ (cop = "from_bytes" /\ Len(cbuf) >= 2) =>
          /\ \A h \in { << 255, 255 >>, << 0, 0 >>, << 0, 1 >>, << 18, 52 >> } :
                from_bytes(WithHeader(cbuf, h)) = cret.parse
          /\ (Len(cbuf) <= 255 /\ PlainComplete(cbuf) /\ PlainChecksumValid(cbuf))
                => cret.parse.tag = "Ok"

\* C20 witness: a frame whose header is not 0xFF 0xFF was parsed into a Status
C20_Witness ==
    /\ cop = "from_bytes" /\ Len(cbuf) >= 6
    /\ cbuf[1] # 255 /\ cbuf[2] # 255
    /\ cret.parse.tag = "Ok"

====
